---- MODULE Spec2Model ----
(***************************************************************************)
(* A model of the three entry points of the repository:                    *)
(*   src/vector_add/vector_add.cpp  (compute example, complete)            *)
(*   src/triangle/triangle.cpp      (graphics example)                     *)
(*   src/example.cpp                (compute example, stops after the      *)
(*                                   pipeline is created)                  *)
(* Each main() is a straight line of driver calls.  The model keeps the    *)
(* program's local variables and the driver objects they name, and runs    *)
(* main() one statement at a time.  What the driver answers (the devices   *)
(* and their queue families, the memory requirements of each resource,     *)
(* the memory type table) is fixed by Init; the result code of each        *)
(* driver call is chosen when the call is made.                            *)
(***************************************************************************)
EXTENDS Integers, Sequences, FiniteSets, TLC

VARIABLES
    prog,                  \* which main() runs
    pc,                    \* index of the next statement of Program(prog)
    exit,                  \* "running", "returned", "aborted" or "crashed"
    exitCode,              \* the value main returned
    errors,                \* nonzero result codes driver calls have returned
    handle,                \* handle variable -> "null", "uninit", "live", "destroyed"
    queueFamilies,         \* driver: per physical device, its families' queueFlags
    requirements,          \* driver: resource -> its VkMemoryRequirements
    memoryTypes,           \* driver: propertyFlags of each memory type
    deviceIt,              \* devices the selection loop has visited
    queueFamilyProperties, \* loop local: the families of the device being visited
    physicalDevice,        \* 0 is VK_NULL_HANDLE, k is the k-th enumerated device
    queueFamilyIndex,
    memReq,                \* the program's VkMemoryRequirements variables
    requiredMemorySize,
    memoryProperties,      \* the program's copy of the memory type table
    memoryTypeIndex,
    memoryOffset,
    block,                 \* memory handle -> the allocationSize and memoryTypeIndex
                           \* it was allocated with
    bound,                 \* the [resource, memory, offset] of each bind made
    call,                  \* an invocation of the memory type search and its result
    commandBuffer,         \* the lifecycle state of the command buffer and the
                           \* calls made on it, each with the state it was made in
    descriptors,           \* bindingCount of the set layout, descriptorCount of
                           \* the pool, and the bindings written in the set
    mapped,                \* the memory blocks that are host-mapped
    contents,              \* memory block -> its 32-bit words
    mismatch,              \* whether the read-back loop has printed a mismatch
    target,                \* the attachment formats of the render pass, the
                           \* format of the swapchain and of each image view,
                           \* and the views attached to the framebuffer
    plan                   \* the memory plan of an earlier run on the same
                           \* machine, when there was one

vars == <<prog, pc, exit, exitCode, errors, handle, queueFamilies, requirements,
          memoryTypes, deviceIt, queueFamilyProperties, physicalDevice,
          queueFamilyIndex, memReq, requiredMemorySize, memoryProperties,
          memoryTypeIndex, memoryOffset, block, bound, call, commandBuffer,
          descriptors, mapped, contents, mismatch, target, plan>>

---------------------------------------------------------------------------
\* Bounds of the model.

MaxDevices == 3
MaxFamilies == 2
MaxMemoryTypes == 2

---------------------------------------------------------------------------
\* Values of the driver's interface that the sources name.

VK_SUCCESS == 0
VK_INCOMPLETE == 5
VK_ERROR_OUT_OF_HOST_MEMORY == -1
VK_ERROR_DEVICE_LOST == -4
VK_ERROR_MEMORY_MAP_FAILED == -5

VK_QUEUE_GRAPHICS_BIT == 1
VK_QUEUE_COMPUTE_BIT == 2
VK_QUEUE_TRANSFER_BIT == 4

VK_MEMORY_PROPERTY_DEVICE_LOCAL_BIT == 1
VK_MEMORY_PROPERTY_HOST_VISIBLE_BIT == 2
VK_MEMORY_PROPERTY_HOST_COHERENT_BIT == 4

VK_NULL_HANDLE == 0

\* return ~42 (two's complement int)
NotFortyTwo == -43
\* return 1 when GLFW cannot be used
GlfwFailure == 1

\* bufferCreateInfo.size = sizeof(uint32_t) * elements, elements = 1024
VectorAddBufferSize == 4096
\* bufferCreateInfo.size = sizeof(vec4) * 3
TriangleBufferSize == 48
\* a 640 x 640 image of VK_FORMAT_D16_UNORM texels
DepthStencilSize == 819200
\* const uint32_t elements = 1024
elements == 1024
\* resultData[index] = 42
FortyTwo == 42
\* VK_WHOLE_SIZE is ~0ULL, all bits set
VK_WHOLE_SIZE == -1
\* VkFormat
VK_FORMAT_B8G8R8A8_UNORM == 44
VK_FORMAT_R32G32B32A32_SFLOAT == 109
VK_FORMAT_D16_UNORM == 124

---------------------------------------------------------------------------
\* Bit operations on unsigned values.

RECURSIVE BitAnd(_, _)
BitAnd(a, b) ==
    IF a = 0 \/ b = 0 THEN 0
    ELSE (a % 2) * (b % 2) + 2 * BitAnd(a \div 2, b \div 2)

BitOr(a, b) == a + b - BitAnd(a, b)

\* 1 << index
ShiftLeftOne(index) == 2 ^ index

---------------------------------------------------------------------------
\* The memory type search: findMemoryTypeFromProperties (vector_add.cpp) and
\* findMemoryTypeIndexFromProperties (triangle.cpp) have the same body.
\* properties is the sequence memoryTypes[0 .. memoryTypeCount-1] of
\* propertyFlags; C index i is sequence position i + 1.

PropertyFlagsMatchSuperset(propertyFlags, requiredProperties) ==
    BitAnd(propertyFlags, requiredProperties) = requiredProperties

PropertyFlagsMatch(propertyFlags, requiredProperties) ==
    propertyFlags = requiredProperties

RECURSIVE FindMemoryTypeFrom(_, _, _, _)
FindMemoryTypeFrom(index, memoryTypeBits, properties, requiredProperties) ==
    IF index < Len(properties)
    THEN IF /\ BitAnd(memoryTypeBits, ShiftLeftOne(index)) # 0
            /\ PropertyFlagsMatch(properties[index + 1], requiredProperties)
         THEN index
         ELSE FindMemoryTypeFrom(index + 1, memoryTypeBits, properties,
                                 requiredProperties)
    ELSE -1

\* the search without the test of memoryTypeBits
findMemoryTypeIgnoringBits(memoryTypeBits, properties, requiredProperties) ==
    FindMemoryTypeFrom(0, 2 ^ Len(properties) - 1, properties,
                       requiredProperties)

findMemoryTypeFromProperties(memoryTypeBits, properties, requiredProperties) ==
    FindMemoryTypeFrom(0, memoryTypeBits, properties, requiredProperties)

---------------------------------------------------------------------------
\* The inner loop of the device selection: the index of the first queue
\* family whose queueFlags have the wanted bit, or -1 when the loop ends
\* without assigning physicalDevice.

QueueFlagsEqual(queueFlags, bit) == queueFlags = bit

QueueFlagsHave(queueFlags, bit) == BitAnd(queueFlags, bit) # 0

RECURSIVE ScanQueueFamilies(_, _, _)
ScanQueueFamilies(index, families, bit) ==
    IF index < Len(families)
    THEN IF QueueFlagsHave(families[index + 1], bit)
         THEN index
         ELSE ScanQueueFamilies(index + 1, families, bit)
    ELSE -1

WantedQueueBit(p) ==
    IF p = "triangle" THEN VK_QUEUE_GRAPHICS_BIT ELSE VK_QUEUE_COMPUTE_BIT

---------------------------------------------------------------------------
\* The statements of each main(), in program order.  A statement is
\*   op        what kind of statement it is
\*   fn        the function it calls
\*   line      its line in the source file
\*   checked   whether main returns the result code when it is nonzero
\*   errs      the nonzero result codes the driver may return from it
\*   creates   the handle variable it fills on success ("" for none)
\*   uses      the handle variables it passes to the driver
\*   destroys  the handle variable whose object it destroys ("" for none)
\*   arg       what else the statement names

Stmt(op, fn, line, checked, errs, creates, uses, destroys, arg) ==
    [op |-> op, fn |-> fn, line |-> line, checked |-> checked, errs |-> errs,
     creates |-> creates, uses |-> uses, destroys |-> destroys, arg |-> arg]

\* error = vkX(...); if (error) return error;   (VK_FAIL_IF in triangle.cpp)
Checked(fn, line, creates, uses) ==
    Stmt("call", fn, line, TRUE, {VK_ERROR_OUT_OF_HOST_MEMORY}, creates, uses,
         "", <<>>)

\* a call whose result code is assigned or dropped but never tested
Unchecked(fn, line, errs, creates, uses) ==
    Stmt("call", fn, line, FALSE, errs, creates, uses, "", <<>>)

\* a call that returns void
Void(fn, line, creates, uses) ==
    Stmt("call", fn, line, FALSE, {}, creates, uses, "", <<>>)

Destroy(fn, line, h, uses) ==
    Stmt("call", fn, line, FALSE, {}, "", uses, h, <<>>)

\* a GLFW call whose failure makes main return code
Glfw(fn, line, code) ==
    Stmt("glfw", fn, line, TRUE, {code}, "", {}, "", <<>>)

SelectDevice(line) ==
    Stmt("select", "vkGetPhysicalDeviceQueueFamilyProperties", line, FALSE, {},
         "", {}, "", <<>>)

\* vkGet{Buffer,Image}MemoryRequirements(device, resource, &into), followed
\* by requiredMemorySize += into.size when accumulate
GetRequirements(fn, line, resource, into, accumulate) ==
    Stmt("getreq", fn, line, FALSE, {}, "", {"device", resource}, "",
         [resource |-> resource, into |-> into, accumulate |-> accumulate])

\* vkGetPhysicalDeviceMemoryProperties and the memory type search over
\* from.memoryTypeBits; onfail is "return" (return ~42) or "abort" (ASSERT)
FindMemoryType(line, from, required, onfail) ==
    Stmt("find", "findMemoryTypeFromProperties", line, FALSE, {}, "",
         {"physicalDevice"}, "",
         [from |-> from, required |-> required, onfail |-> onfail])

\* vkAllocateMemory with allocationSize = requiredMemorySize (var = "") or
\* var.size * times
Allocate(line, checked, memory, var, times) ==
    Stmt("allocate", "vkAllocateMemory", line, checked,
         {VK_ERROR_OUT_OF_HOST_MEMORY}, memory, {"device"}, "",
         [var |-> var, times |-> times])

\* memoryOffset = 0 (var = "") or memoryOffset += var.size
SetOffset(line, var) ==
    Stmt("setoffset", "", line, FALSE, {}, "", {}, "", [var |-> var])

\* vkBindBufferMemory(device, resource, memory, offset), offset being the
\* variable memoryOffset (useVar) or the literal
Bind(line, resource, memory, useVar, literal) ==
    Stmt("bind", "vkBindBufferMemory", line, TRUE,
         {VK_ERROR_OUT_OF_HOST_MEMORY}, "", {"device", resource, memory}, "",
         [resource |-> resource, memory |-> memory, useVar |-> useVar,
          literal |-> literal])

Return(line) == Stmt("return", "", line, FALSE, {}, "", {}, "", <<>>)

\* vkCreateDescriptorSetLayout with pBindings holding the bindings
\* declared; bindingCount is layoutBindings.size() when sized and the
\* literal otherwise
CreateSetLayout(line, declared, sized, literal) ==
    Stmt("call", "vkCreateDescriptorSetLayout", line, TRUE,
         {VK_ERROR_OUT_OF_HOST_MEMORY}, "setLayout", {"device"}, "",
         [declared |-> declared, sized |-> sized, literal |-> literal])

\* vkCreateDescriptorPool with maxSets = 1 and one pool size, whose
\* descriptorCount is layoutBindings.size() when sized and the literal
\* otherwise
CreateDescriptorPool(line, checked, sized, literal) ==
    Stmt("call", "vkCreateDescriptorPool", line, checked,
         {VK_ERROR_OUT_OF_HOST_MEMORY}, "descriptorPool", {"device"}, "",
         [sized |-> sized, literal |-> literal])

\* vkCreateRenderPass with the attachment descriptions of these formats
CreateRenderPass(line, formats) ==
    Stmt("call", "vkCreateRenderPass", line, TRUE,
         {VK_ERROR_OUT_OF_HOST_MEMORY}, "renderPass", {"device"}, "",
         [formats |-> formats])

\* vkCreateSwapchainKHR with imageFormat = format; the result is dropped
CreateSwapchain(line, format) ==
    Stmt("call", "vkCreateSwapchainKHR", line, FALSE,
         {VK_ERROR_OUT_OF_HOST_MEMORY}, "swapchain", {"device", "surface"}, "",
         [format |-> format])

\* vkCreateImageView of an image with the given format
CreateImageView(line, view, image, format) ==
    Stmt("call", "vkCreateImageView", line, TRUE,
         {VK_ERROR_OUT_OF_HOST_MEMORY}, view, {"device", image}, "",
         [view |-> view, format |-> format])

\* vkCreateFramebuffer for the render pass with pAttachments = attachments
CreateFramebuffer(line, attachments) ==
    Stmt("call", "vkCreateFramebuffer", line, TRUE,
         {VK_ERROR_OUT_OF_HOST_MEMORY}, "framebuffer",
         {"device", "renderPass"} \cup
             {attachments[i] : i \in DOMAIN attachments}, "",
         [attachments |-> attachments])

\* vkUpdateDescriptorSets writing one buffer to each of the bindings
\* 0, 1, ..., each with offset = 0 and range = VK_WHOLE_SIZE
\* vkUpdateDescriptorSets with dstBinding counted from 1
UpdateDescriptorSetsFromOne(line, buffers) ==
    Stmt("call", "vkUpdateDescriptorSets", line, FALSE, {}, "",
         {"device", "descriptorSet"} \cup {buffers[i] : i \in DOMAIN buffers},
         "",
         [writes |-> {[binding |-> i, buffer |-> buffers[i],
                       offset |-> 0, range |-> VK_WHOLE_SIZE] :
                         i \in DOMAIN buffers}])

UpdateDescriptorSets(line, buffers) ==
    Stmt("call", "vkUpdateDescriptorSets", line, FALSE, {}, "",
         {"device", "descriptorSet"} \cup {buffers[i] : i \in DOMAIN buffers},
         "",
         [writes |-> {[binding |-> i - 1, buffer |-> buffers[i],
                       offset |-> 0, range |-> VK_WHOLE_SIZE] :
                         i \in DOMAIN buffers}])

\* the loop that writes the inputs through the mapped pointer: aData,
\* bData and resultData are data + a, data + b and data + r
HostWrite(line, memory, a, b, r) ==
    Stmt("hostwrite", "", line, FALSE, {}, "", {memory}, "",
         [memory |-> memory, aData |-> a, bData |-> b, resultData |-> r])

\* the loop that compares resultData[index] with aData[index] + bData[index]
HostRead(line, memory, a, b, r) ==
    Stmt("hostread", "", line, FALSE, {}, "", {memory}, "",
         [memory |-> memory, aData |-> a, bData |-> b, resultData |-> r])

HostVisibleCoherent ==
    BitOr(VK_MEMORY_PROPERTY_HOST_VISIBLE_BIT,
          VK_MEMORY_PROPERTY_HOST_COHERENT_BIT)

VectorAdd == <<
    Checked("vkCreateInstance", 73, "instance", {}),
    Checked("vkEnumeratePhysicalDevices", 103, "", {"instance"}),
    Stmt("call", "vkEnumeratePhysicalDevices", 108, TRUE,
         {VK_ERROR_OUT_OF_HOST_MEMORY, VK_INCOMPLETE}, "", {"instance"}, "",
         <<>>),
    SelectDevice(117),
    Checked("vkCreateDevice", 158, "device", {"physicalDevice"}),
    Void("vkGetDeviceQueue", 165, "queue", {"device"}),
    CreateSetLayout(198, {0, 1, 2}, TRUE, 0),
    Unchecked("vkCreatePipelineLayout", 211, {VK_ERROR_OUT_OF_HOST_MEMORY},
              "pipelineLayout", {"device", "setLayout"}),
    Unchecked("vkCreateShaderModule", 222, {VK_ERROR_OUT_OF_HOST_MEMORY},
              "shaderModule", {"device"}),
    Checked("vkCreateComputePipelines", 236, "pipeline",
            {"device", "shaderModule", "pipelineLayout"}),
    Destroy("vkDestroyShaderModule", 243, "shaderModule", {"device"}),
    Checked("vkCreateBuffer", 256, "bufferA", {"device"}),
    Checked("vkCreateBuffer", 262, "bufferB", {"device"}),
    Checked("vkCreateBuffer", 268, "bufferResult", {"device"}),
    GetRequirements("vkGetBufferMemoryRequirements", 279, "bufferA",
                    "bufferAMemoryRequirements", TRUE),
    GetRequirements("vkGetBufferMemoryRequirements", 282, "bufferA",
                    "bufferBMemoryRequirements", TRUE),
    GetRequirements("vkGetBufferMemoryRequirements", 285, "bufferA",
                    "bufferResultMemoryRequirements", TRUE),
    FindMemoryType(295, "bufferAMemoryRequirements", HostVisibleCoherent,
                   "return"),
    Allocate(311, TRUE, "memory", "", 1),
    SetOffset(318, ""),
    Bind(319, "bufferA", "memory", TRUE, 0),
    SetOffset(325, "bufferAMemoryRequirements"),
    Bind(326, "bufferB", "memory", TRUE, 0),
    SetOffset(333, "bufferBMemoryRequirements"),
    Bind(334, "bufferResult", "memory", TRUE, 0),
    CreateDescriptorPool(359, FALSE, TRUE, 0),
    Checked("vkAllocateDescriptorSets", 372, "descriptorSet",
            {"device", "descriptorPool", "setLayout"}),
    UpdateDescriptorSets(416, <<"bufferA", "bufferB", "bufferResult">>),
    Checked("vkCreateCommandPool", 426, "commandPool", {"device"}),
    Checked("vkAllocateCommandBuffers", 442, "commandBuffer",
            {"device", "commandPool"}),
    Unchecked("vkBeginCommandBuffer", 452, {VK_ERROR_OUT_OF_HOST_MEMORY}, "",
              {"commandBuffer"}),
    Void("vkCmdBindPipeline", 455, "", {"commandBuffer", "pipeline"}),
    Void("vkCmdBindDescriptorSets", 457, "",
         {"commandBuffer", "pipelineLayout", "descriptorSet"}),
    Void("vkCmdDispatch", 460, "", {"commandBuffer"}),
    Checked("vkEndCommandBuffer", 463, "", {"commandBuffer"}),
    Stmt("call", "vkMapMemory", 471, TRUE, {VK_ERROR_MEMORY_MAP_FAILED}, "",
         {"device", "memory"}, "", <<>>),
    HostWrite(485, "memory", 0, elements, elements),
    Void("vkUnmapMemory", 493, "", {"device", "memory"}),
    Unchecked("vkQueueSubmit", 502, {VK_ERROR_DEVICE_LOST}, "",
              {"queue", "commandBuffer"}),
    Unchecked("vkQueueWaitIdle", 504,
              {VK_ERROR_OUT_OF_HOST_MEMORY, VK_ERROR_DEVICE_LOST}, "",
              {"queue"}),
    Unchecked("vkMapMemory", 508, {VK_ERROR_MEMORY_MAP_FAILED}, "",
              {"device", "memory"}),
    HostRead(516, "memory", 0, elements, 2 * elements),
    Void("vkUnmapMemory", 523, "", {"device", "memory"}),
    Destroy("vkDestroyCommandPool", 526, "commandPool", {"device"}),
    Destroy("vkFreeMemory", 527, "memory", {"device"}),
    Destroy("vkDestroyBuffer", 528, "bufferResult", {"device"}),
    Destroy("vkDestroyBuffer", 529, "bufferB", {"device"}),
    Destroy("vkDestroyBuffer", 530, "bufferA", {"device"}),
    Destroy("vkDestroyDescriptorPool", 531, "descriptorPool", {"device"}),
    Destroy("vkDestroyPipeline", 532, "pipeline", {"device"}),
    Destroy("vkDestroyPipelineLayout", 533, "pipelineLayout", {"device"}),
    Destroy("vkDestroyDescriptorSetLayout", 534, "setLayout", {"device"}),
    Destroy("vkDestroyDevice", 535, "device", {}),
    Destroy("vkDestroyInstance", 539, "instance", {}),
    Return(543) >>

Example == <<
    Checked("vkCreateInstance", 65, "instance", {}),
    Checked("vkEnumeratePhysicalDevices", 95, "", {"instance"}),
    Stmt("call", "vkEnumeratePhysicalDevices", 100, TRUE,
         {VK_ERROR_OUT_OF_HOST_MEMORY, VK_INCOMPLETE}, "", {"instance"}, "",
         <<>>),
    SelectDevice(109),
    Checked("vkCreateDevice", 150, "device", {"physicalDevice"}),
    Void("vkGetDeviceQueue", 157, "queue", {"device"}),
    CreateSetLayout(192, {0, 1, 2}, FALSE, 2),
    Unchecked("vkCreatePipelineLayout", 205, {VK_ERROR_OUT_OF_HOST_MEMORY},
              "pipelineLayout", {"device", "setLayout"}),
    Unchecked("vkCreateShaderModule", 216, {VK_ERROR_OUT_OF_HOST_MEMORY},
              "shaderModule", {"device"}),
    Checked("vkCreateComputePipelines", 230, "pipeline",
            {"device", "shaderModule", "pipelineLayout"}),
    Destroy("vkDestroyShaderModule", 237, "shaderModule", {"device"}),
    Destroy("vkDestroyPipeline", 245, "pipeline", {"device"}),
    Destroy("vkDestroyPipelineLayout", 246, "pipelineLayout", {"device"}),
    Destroy("vkDestroyDescriptorSetLayout", 247, "setLayout", {"device"}),
    Destroy("vkDestroyDevice", 248, "device", {}),
    Destroy("vkDestroyInstance", 252, "instance", {}),
    Return(254) >>

\* triangle.cpp.  The statement at lines 620-628 that would create
\* swapchainView is not a complete call (it names no image and has no
\* closing arguments), so swapchainView keeps the VK_NULL_HANDLE of line 627.
Triangle == <<
    Glfw("glfwInit", 96, GlfwFailure),
    Glfw("glfwVulkanSupported", 101, GlfwFailure),
    Glfw("glfwCreateWindow", 116, NotFortyTwo),
    Checked("vkCreateInstance", 153, "instance", {}),
    Unchecked("glfwCreateWindowSurface", 157, {VK_ERROR_OUT_OF_HOST_MEMORY},
              "surface", {"instance"}),
    Checked("vkEnumeratePhysicalDevices", 186, "", {"instance"}),
    Stmt("call", "vkEnumeratePhysicalDevices", 189, TRUE,
         {VK_ERROR_OUT_OF_HOST_MEMORY, VK_INCOMPLETE}, "", {"instance"}, "",
         <<>>),
    SelectDevice(196),
    Checked("vkCreateDevice", 237, "device", {"physicalDevice"}),
    Void("vkGetDeviceQueue", 242, "queue", {"device"}),
    Checked("vkCreateShaderModule", 251, "vertexShaderModule", {"device"}),
    Checked("vkCreateShaderModule", 260, "fragmentShaderModule", {"device"}),
    CreateSetLayout(366, {0, 1}, TRUE, 0),
    Checked("vkCreatePipelineLayout", 376, "pipelineLayout",
            {"device", "setLayout"}),
    CreateRenderPass(455, <<VK_FORMAT_R32G32B32A32_SFLOAT,
                            VK_FORMAT_D16_UNORM>>),
    Checked("vkCreateGraphicsPipelines", 471, "pipeline",
            {"device", "vertexShaderModule", "fragmentShaderModule",
             "pipelineLayout", "renderPass"}),
    Checked("vkCreateCommandPool", 479, "commandPool", {"device"}),
    Checked("vkAllocateCommandBuffers", 490, "commandBuffer",
            {"device", "commandPool"}),
    CreateDescriptorPool(505, TRUE, FALSE, 2),
    Checked("vkAllocateDescriptorSets", 516, "descriptorSet",
            {"device", "descriptorPool", "setLayout"}),
    Checked("vkBeginCommandBuffer", 522, "", {"commandBuffer"}),
    Checked("vkCreateBuffer", 537, "vertexPositions", {"device"}),
    Checked("vkCreateBuffer", 541, "vertexColors", {"device"}),
    GetRequirements("vkGetBufferMemoryRequirements", 545, "vertexPositions",
                    "memoryRequirements", FALSE),
    FindMemoryType(549, "memoryRequirements", HostVisibleCoherent, "abort"),
    Allocate(560, TRUE, "bufferMemory", "memoryRequirements", 2),
    Bind(563, "vertexPositions", "bufferMemory", FALSE, 0),
    Bind(565, "vertexColors", "bufferMemory", FALSE, TriangleBufferSize),
    Unchecked("vkMapMemory", 570, {VK_ERROR_MEMORY_MAP_FAILED}, "",
              {"device", "bufferMemory"}),
    Void("vkUnmapMemory", 582, "", {"device", "bufferMemory"}),
    Unchecked("vkGetPhysicalDeviceSurfaceFormatsKHR", 586,
              {VK_ERROR_OUT_OF_HOST_MEMORY}, "", {"physicalDevice", "surface"}),
    Unchecked("vkGetPhysicalDeviceSurfaceFormatsKHR", 589,
              {VK_ERROR_OUT_OF_HOST_MEMORY}, "", {"physicalDevice", "surface"}),
    Unchecked("vkGetPhysicalDeviceSurfaceCapabilitiesKHR", 593,
              {VK_ERROR_OUT_OF_HOST_MEMORY}, "", {"physicalDevice", "surface"}),
    CreateSwapchain(618, VK_FORMAT_B8G8R8A8_UNORM),
    Checked("vkCreateImage", 649, "depthStencil", {"device"}),
    CreateImageView(664, "depthStencilView", "depthStencil",
                    VK_FORMAT_D16_UNORM),
    GetRequirements("vkGetImageMemoryRequirements", 670, "depthStencil",
                    "memoryRequirements", FALSE),
    FindMemoryType(671, "memoryRequirements",
                   VK_MEMORY_PROPERTY_DEVICE_LOCAL_BIT, "abort"),
    Allocate(679, FALSE, "imageMemory", "memoryRequirements", 1),
    CreateFramebuffer(690, <<"swapchainView", "depthStencilView">>),
    Void("vkCmdBeginRenderPass", 711, "",
         {"commandBuffer", "renderPass", "framebuffer"}),
    Void("vkCmdBindPipeline", 714, "", {"commandBuffer", "pipeline"}),
    Void("vkCmdBindDescriptorSets", 715, "",
         {"commandBuffer", "pipelineLayout", "descriptorSet"}),
    Void("vkCmdSetViewport", 717, "", {"commandBuffer"}),
    Void("vkCmdSetScissor", 718, "", {"commandBuffer"}),
    Void("vkCmdBindVertexBuffers", 722, "",
         {"commandBuffer", "vertexPositions", "vertexColors"}),
    Void("vkCmdDraw", 724, "", {"commandBuffer"}),
    Void("vkCmdEndRenderPass", 726, "", {"commandBuffer"}),
    Checked("vkEndCommandBuffer", 728, "", {"commandBuffer"}),
    Destroy("vkFreeCommandBuffers", 732, "commandBuffer",
            {"device", "commandPool"}),
    Destroy("vkDestroyCommandPool", 733, "commandPool", {"device"}),
    Destroy("vkDestroyDescriptorPool", 735, "descriptorPool", {"device"}),
    Destroy("vkDestroyRenderPass", 736, "renderPass", {"device"}),
    Destroy("vkDestroyPipelineLayout", 737, "pipelineLayout", {"device"}),
    Destroy("vkDestroyDescriptorSetLayout", 738, "setLayout", {"device"}),
    Destroy("vkDestroyPipeline", 739, "pipeline", {"device"}),
    Destroy("vkDestroyShaderModule", 740, "fragmentShaderModule", {"device"}),
    Destroy("vkDestroyShaderModule", 741, "vertexShaderModule", {"device"}),
    Destroy("vkDestroyDevice", 742, "device", {}),
    Destroy("vkDestroyInstance", 746, "instance", {}),
    Return(749) >>

Programs == {"vector_add", "triangle", "example"}

Program(p) ==
    IF p = "vector_add" THEN VectorAdd
    ELSE IF p = "triangle" THEN Triangle
    ELSE Example

SelectAt(p) ==
    CHOOSE k \in 1..Len(Program(p)) : Program(p)[k].op = "select"

\* The handle variables of p and the state each is declared in: those
\* declared without an initialiser hold no defined value.
HandleVars(p) ==
    UNION {{Program(p)[k].creates, Program(p)[k].destroys} \cup
           Program(p)[k].uses : k \in 1..Len(Program(p))}
        \ {"", "physicalDevice"}

DeclaredUninitialised(p) ==
    IF p = "vector_add" THEN {"queue", "bufferA", "bufferB", "bufferResult"}
    ELSE IF p = "triangle" THEN {"queue", "imageMemory", "framebuffer"}
    ELSE {"queue"}

InitialHandles(p) ==
    [h \in HandleVars(p) |->
        IF h \in DeclaredUninitialised(p) THEN "uninit" ELSE "null"]

\* The resources of p that are bound to memory or queried for requirements,
\* the memory blocks, and the VkMemoryRequirements variables.
Resources(p) ==
    {Program(p)[k].arg.resource :
        k \in {j \in 1..Len(Program(p)) : Program(p)[j].op \in {"getreq", "bind"}}}

MemoryBlocks(p) ==
    {Program(p)[k].creates :
        k \in {j \in 1..Len(Program(p)) : Program(p)[j].op = "allocate"}}

RequirementVars(p) ==
    {Program(p)[k].arg.into :
        k \in {j \in 1..Len(Program(p)) : Program(p)[j].op = "getreq"}}

---------------------------------------------------------------------------
\* What the driver may answer.

SeqsUpTo(S, n) == UNION {[1..k -> S] : k \in 0..n}

AllQueues ==
    BitOr(VK_QUEUE_GRAPHICS_BIT,
          BitOr(VK_QUEUE_COMPUTE_BIT, VK_QUEUE_TRANSFER_BIT))

\* queueFlags of a family: graphics and transfer without compute, or
\* compute and transfer without graphics
QueueFlagValues ==
    {BitOr(VK_QUEUE_GRAPHICS_BIT, VK_QUEUE_TRANSFER_BIT),
     BitOr(VK_QUEUE_COMPUTE_BIT, VK_QUEUE_TRANSFER_BIT)}

\* every list of at most MaxDevices devices of at most MaxFamilies families
DeviceLists == SeqsUpTo(SeqsUpTo(QueueFlagValues, MaxFamilies), MaxDevices)

\* the machines a whole run is explored on: no device, a device without
\* the wanted family, a device with it, and a second device with it at
\* family index 1
RunDeviceLists ==
    {<<>>,
     << <<VK_QUEUE_TRANSFER_BIT>> >>,
     << <<AllQueues>> >>,
     << <<VK_QUEUE_TRANSFER_BIT>>, <<VK_QUEUE_TRANSFER_BIT, AllQueues>> >>}

DeviceLocalHostVisibleCoherent ==
    BitOr(VK_MEMORY_PROPERTY_DEVICE_LOCAL_BIT, HostVisibleCoherent)

\* propertyFlags of a memory type: device local, host visible, host
\* visible and coherent, and all three
PropertyFlagValues ==
    {VK_MEMORY_PROPERTY_DEVICE_LOCAL_BIT,
     VK_MEMORY_PROPERTY_HOST_VISIBLE_BIT,
     HostVisibleCoherent,
     DeviceLocalHostVisibleCoherent}

\* the arguments the memory type search is explored on
MemoryTypeTables == SeqsUpTo(PropertyFlagValues, MaxMemoryTypes)

MemoryTypeBitsValues == 0..(2 ^ MaxMemoryTypes - 1)

RequestedProperties ==
    {HostVisibleCoherent, VK_MEMORY_PROPERTY_DEVICE_LOCAL_BIT}

\* A memory type table a device may report has a type that is host visible
\* and coherent and a type that is device local.
DeviceTable(t) ==
    /\ \E i \in 1..Len(t) :
          BitAnd(t[i], HostVisibleCoherent) = HostVisibleCoherent
    /\ \E i \in 1..Len(t) :
          BitAnd(t[i], VK_MEMORY_PROPERTY_DEVICE_LOCAL_BIT) # 0

AllocMemoryTables ==
    {t \in SeqsUpTo({VK_MEMORY_PROPERTY_DEVICE_LOCAL_BIT, HostVisibleCoherent,
                     DeviceLocalHostVisibleCoherent}, MaxMemoryTypes) :
        DeviceTable(t)}

\* the tables a whole run is explored on, of two memory types each: one
\* where both searches find a type and one where neither does
RunMemoryTables ==
    {<<HostVisibleCoherent, VK_MEMORY_PROPERTY_DEVICE_LOCAL_BIT>>,
     <<DeviceLocalHostVisibleCoherent, DeviceLocalHostVisibleCoherent>>}

\* The size the program asks for when it creates the resource.
ResourceSize(p, r) ==
    IF p = "vector_add" THEN VectorAddBufferSize
    ELSE IF r = "depthStencil" THEN DepthStencilSize
    ELSE TriangleBufferSize

\* The buffers of p: each main() creates all of its buffers from one
\* VkBufferCreateInfo, so the driver reports the same requirements for
\* each of them.
Buffers(p) ==
    {Program(p)[k].arg.resource :
        k \in {j \in 1..Len(Program(p)) : Program(p)[j].op = "bind"}}

\* Requirements the driver may report for a buffer of a given size when
\* the device has the memory types of table: the size itself or more, an
\* alignment that is a power of two, and a mask of existing memory types
\* with a host visible and coherent type among them.
SizeSlackValues == {0, 16, 208}
AlignmentValues == {16, 256}

BufferMasks(table) ==
    {mask \in 1..(2 ^ Len(table) - 1) :
        \E i \in 0..(Len(table) - 1) :
            /\ (mask \div (2 ^ i)) % 2 = 1
            /\ BitAnd(table[i + 1], HostVisibleCoherent) = HostVisibleCoherent}

RequirementValues(size, table) ==
    [size : {size + s : s \in SizeSlackValues},
     alignment : AlignmentValues,
     memoryTypeBits : BufferMasks(table)]

\* the requirements a whole run is explored on: the size asked for, and
\* both memory types of the table allowed
NominalRequirements(p) ==
    [r \in Resources(p) |->
        [size |-> ResourceSize(p, r), alignment |-> 16, memoryTypeBits |-> 3]]

BufferRequirements(p, q) ==
    [r \in Resources(p) |->
        IF r \in Buffers(p) THEN q ELSE NominalRequirements(p)[r]]

---------------------------------------------------------------------------
\* Descriptors, the command buffer, host mappings and the words of memory.

\* The memory blocks main(p) reads or writes through a mapped pointer.
HostBlocks(p) ==
    {Program(p)[k].arg.memory :
        k \in {j \in 1..Len(Program(p)) :
                  Program(p)[j].op \in {"hostwrite", "hostread"}}}

\* The vkCmd* functions the examples call.
RecordingCommands ==
    {"vkCmdBindPipeline", "vkCmdBindDescriptorSets", "vkCmdDispatch",
     "vkCmdBeginRenderPass", "vkCmdSetViewport", "vkCmdSetScissor",
     "vkCmdBindVertexBuffers", "vkCmdDraw", "vkCmdEndRenderPass"}

\* The functions that act on the command buffer, its pool or its queue.
CommandBufferCalls ==
    RecordingCommands \cup
    {"vkBeginCommandBuffer", "vkEndCommandBuffer", "vkQueueSubmit",
     "vkQueueWaitIdle", "vkFreeCommandBuffers", "vkDestroyCommandPool"}

NoCommandBuffer == [state |-> "Initial", log |-> <<>>]

NoDescriptors ==
    [declared |-> {}, bindingCount |-> 0, maxSets |-> 0,
     descriptorCount |-> 0, poolSized |-> FALSE, written |-> {}]

\* setLayoutCreateInfo.bindingCount = layoutBindings.size();  or a literal
BindingCount(s) ==
    IF s.arg.sized THEN Cardinality(s.arg.declared) ELSE s.arg.literal

\* descriptorPoolCreateInfo.maxSets = 1
MaxSets == 1

\* a pool size of maxSets
DescriptorCountOfSets(s, declared) == MaxSets

\* poolSize.descriptorCount = layoutBindings.size();  or a literal
DescriptorCount(s, declared) ==
    IF s.arg.sized THEN Cardinality(declared) ELSE s.arg.literal

\* The state the driver moves a command buffer to when fn succeeds on a
\* command buffer in the state the function requires.
StateAfter(fn, state) ==
    IF fn = "vkBeginCommandBuffer" /\ state = "Initial" THEN "Recording"
    ELSE IF fn = "vkEndCommandBuffer" /\ state = "Recording" THEN "Recorded"
    ELSE IF fn = "vkQueueSubmit" /\ state = "Recorded" THEN "Submitted"
    ELSE IF fn = "vkQueueWaitIdle" /\ state = "Submitted" THEN "Completed"
    ELSE state

\* The command buffer after statement s returned result: the call is
\* logged with the state it was made in, its result and the bindings
\* written by then.
CommandBufferAfter(s, result, cb, d) ==
    IF s.fn \notin CommandBufferCalls THEN cb
    ELSE [state |-> IF result = VK_SUCCESS THEN StateAfter(s.fn, cb.state)
                    ELSE cb.state,
          log |-> Append(cb.log,
                         [fn |-> s.fn, state |-> cb.state, result |-> result,
                          written |-> {w.binding : w \in d.written}])]

\* The descriptors after statement s succeeded.
DescriptorsAfter(s, d) ==
    IF s.fn = "vkCreateDescriptorSetLayout"
    THEN [d EXCEPT !.declared = s.arg.declared,
                   !.bindingCount = BindingCount(s)]
    ELSE IF s.fn = "vkCreateDescriptorPool"
    THEN [d EXCEPT !.maxSets = MaxSets,
                   !.descriptorCount = DescriptorCount(s, d.declared),
                   !.poolSized = s.arg.sized]
    ELSE IF s.fn = "vkUpdateDescriptorSets"
    THEN [d EXCEPT !.written = d.written \cup s.arg.writes]
    ELSE d

NoTarget ==
    [renderPass |-> <<>>, swapchain |-> {}, views |-> {}, framebuffer |-> <<>>]

\* The render target after statement s succeeded.
TargetAfter(s, t) ==
    IF s.fn = "vkCreateRenderPass" THEN [t EXCEPT !.renderPass = s.arg.formats]
    ELSE IF s.fn = "vkCreateSwapchainKHR"
    THEN [t EXCEPT !.swapchain = {s.arg.format}]
    ELSE IF s.fn = "vkCreateImageView"
    THEN [t EXCEPT !.views = t.views \cup
                       {[view |-> s.arg.view, format |-> s.arg.format]}]
    ELSE IF s.fn = "vkCreateFramebuffer"
    THEN [t EXCEPT !.framebuffer = s.arg.attachments]
    ELSE t

\* The mapped blocks of main(p) after statement s succeeded: freeing a
\* mapped block unmaps it.
MappedAfter(p, s, m) ==
    IF s.fn = "vkMapMemory" THEN m \cup (s.uses \cap MemoryBlocks(p))
    ELSE IF s.fn \in {"vkUnmapMemory", "vkFreeMemory"}
    THEN m \ (s.uses \cup {s.destroys})
    ELSE m

\* A word of memory is <<v>> when it holds the int32_t v and <<>> when
\* nothing has written it yet and its value is indeterminate.  The values
\* the examples store and add are between -elements and elements + 42, so
\* no addition leaves the range of int32_t.
Unwritten == <<>>

Word(v) == <<v>>

FreshWords(size) == [w \in 0..((size \div 4) - 1) |-> Unwritten]

Max(S) == CHOOSE x \in S : \A y \in S : y <= x

\* for (index = 0; index < elements; index++) {
\*   aData[index] = index; bData[index] = -index; resultData[index] = 42; }
\* on the words c of the block: each word keeps the last value stored to it.
HostWritten(c, a, b, r) ==
    [w \in DOMAIN c |->
        LET hits == {i \in {w - a, w - b, w - r} : i \in 0..(elements - 1)}
        IN IF hits = {} THEN c[w]
           ELSE IF w - r = Max(hits) THEN Word(FortyTwo)
           ELSE IF w - b = Max(hits) THEN Word(-(w - b))
           ELSE Word(w - a)]

\* Every word the read-back loop reads has been written.
Determinate(c, a, b, r) ==
    \A i \in 0..(elements - 1) :
        Unwritten \notin {c[a + i], c[b + i], c[r + i]}

\* if (resultData[index] != aData[index] + bData[index]) fprintf(stderr, ...)
\* for some index
HostMismatch(c, a, b, r) ==
    \E i \in 0..(elements - 1) : c[r + i][1] # c[a + i][1] + c[b + i][1]

\* The first word of the buffer written to a binding of the descriptor set.
WordOffset(binding) ==
    LET buffer == (CHOOSE w \in descriptors.written :
                        w.binding = binding).buffer
    IN (CHOOSE x \in bound : x.resource = buffer).offset \div 4

\* The dispatch of vector_add.comp over elements invocations:
\* R[i] = A[i] + B[i] on the buffers at bindings 0, 1 and 2.
Dispatched(c) ==
    LET a == WordOffset(0)
        b == WordOffset(1)
        r == WordOffset(2)
    IN [w \in DOMAIN c |->
          IF w - r \in 0..(elements - 1)
          THEN IF Unwritten \in {c[a + (w - r)], c[b + (w - r)]}
               THEN Unwritten
               ELSE Word(c[a + (w - r)][1] + c[b + (w - r)][1])
          ELSE c[w]]

\* The command buffer, descriptors and mappings when the first k - 1
\* statements of p have succeeded.
RECURSIVE WorkBefore(_, _)
WorkBefore(p, k) ==
    IF k = 1
    THEN [commandBuffer |-> NoCommandBuffer, descriptors |-> NoDescriptors,
          mapped |-> {}, target |-> NoTarget]
    ELSE LET w == WorkBefore(p, k - 1)
             s == Program(p)[k - 1]
         IN [commandBuffer |-> CommandBufferAfter(s, VK_SUCCESS,
                                   w.commandBuffer, w.descriptors),
             descriptors |-> DescriptorsAfter(s, w.descriptors),
             mapped |-> MappedAfter(p, s, w.mapped),
             target |-> TargetAfter(s, w.target)]

---------------------------------------------------------------------------
\* Initial states.

NoRequirements == [size |-> 0, alignment |-> 0, memoryTypeBits |-> 0]

NoBlock == [allocationSize |-> 0, memoryTypeIndex |-> -1]

NoCall ==
    [memoryTypeBits |-> 0, properties |-> <<>>, requiredProperties |-> 0,
     done |-> FALSE, result |-> 0]

\* The handles when the first k - 1 statements of p have succeeded.
RECURSIVE HandlesBefore(_, _)
HandlesBefore(p, k) ==
    IF k = 1 THEN InitialHandles(p)
    ELSE LET h == HandlesBefore(p, k - 1)
             s == Program(p)[k - 1]
         IN [x \in DOMAIN h |->
                IF x = s.creates THEN "live"
                ELSE IF x = s.destroys THEN "destroyed"
                ELSE h[x]]

\* main(p) about to run statement k, nothing having failed before it.
StartAt(p, k) ==
    /\ prog = p
    /\ pc = k
    /\ exit = "running"
    /\ exitCode = 0
    /\ errors = {}
    /\ handle = HandlesBefore(p, k)
    /\ queueFamilyProperties = <<>>
    /\ memReq = [v \in RequirementVars(p) |-> NoRequirements]
    /\ requiredMemorySize = 0
    /\ memoryProperties = <<>>
    /\ memoryTypeIndex = 0
    /\ memoryOffset = 0
    /\ block = [m \in MemoryBlocks(p) |-> NoBlock]
    /\ bound = {}
    /\ commandBuffer = WorkBefore(p, k).commandBuffer
    /\ descriptors = WorkBefore(p, k).descriptors
    /\ mapped = WorkBefore(p, k).mapped
    /\ target = WorkBefore(p, k).target
    /\ plan = <<>>
    /\ contents = [m \in HostBlocks(p) |-> <<>>]
    /\ mismatch = FALSE

NotSelectedYet ==
    /\ deviceIt = 0
    /\ physicalDevice = VK_NULL_HANDLE
    /\ queueFamilyIndex = 0

\* A whole run of each main().
Init ==
    /\ \E p \in Programs : StartAt(p, 1)
    /\ queueFamilies \in RunDeviceLists
    /\ requirements = NominalRequirements(prog)
    /\ memoryTypes \in RunMemoryTables
    /\ NotSelectedYet
    /\ call = NoCall

\* The device selection loop alone, on every list of devices.
InitSelect ==
    /\ \E p \in Programs : StartAt(p, SelectAt(p))
    /\ queueFamilies \in DeviceLists
    /\ requirements = NominalRequirements(prog)
    /\ memoryTypes = <<HostVisibleCoherent>>
    /\ NotSelectedYet
    /\ call = NoCall

\* The position of the first vkCreateBuffer and of the last bind.
FirstBufferAt(p) ==
    CHOOSE k \in 1..Len(Program(p)) :
        /\ Program(p)[k].fn = "vkCreateBuffer"
        /\ \A j \in 1..(k - 1) : Program(p)[j].fn # "vkCreateBuffer"

LastBindAt(p) ==
    CHOOSE k \in 1..Len(Program(p)) :
        /\ Program(p)[k].op = "bind"
        /\ \A j \in (k + 1)..Len(Program(p)) : Program(p)[j].op # "bind"

\* The memory planning of vector_add.cpp and triangle.cpp alone, from the
\* creation of the buffers to the last bind, on a machine whose first
\* device has the wanted queue family at index 0.
InitAlloc ==
    /\ \E p \in {"vector_add", "triangle"} : StartAt(p, FirstBufferAt(p))
    /\ queueFamilies = << <<AllQueues>> >>
    /\ memoryTypes \in AllocMemoryTables
    /\ \E q \in RequirementValues(
                    ResourceSize(prog, CHOOSE r \in Buffers(prog) : TRUE),
                    memoryTypes) :
          requirements = BufferRequirements(prog, q)
    /\ deviceIt = 1
    /\ physicalDevice = 1
    /\ queueFamilyIndex = 0
    /\ call = NoCall

\* The memory type search alone, on every mask, table and requested flags.
InitFind ==
    /\ StartAt("vector_add", 1)
    /\ queueFamilies = <<>>
    /\ requirements = NominalRequirements(prog)
    /\ memoryTypes = <<>>
    /\ NotSelectedYet
    /\ \E bits \in MemoryTypeBitsValues, table \in MemoryTypeTables,
          required \in RequestedProperties :
          call = [memoryTypeBits |-> bits, properties |-> table,
                  requiredProperties |-> required, done |-> FALSE,
                  result |-> 0]

---------------------------------------------------------------------------
\* Running main() one statement at a time.

Running == exit = "running" /\ pc <= Len(Program(prog))

Cur == Program(prog)[pc]

\* The state of the command buffer and of the mapping is the one the
\* function of statement s requires: recording needs a command buffer that
\* is being recorded, submission a recorded one, freeing one that is not
\* pending, mapping a block that is not mapped, unmapping and the use of
\* the mapped pointer a block that is.
ValidUsage(s) ==
    /\ s.fn = "vkBeginCommandBuffer" => commandBuffer.state = "Initial"
    /\ s.fn \in RecordingCommands \cup {"vkEndCommandBuffer"}
          => commandBuffer.state = "Recording"
    /\ s.fn = "vkQueueSubmit" => commandBuffer.state = "Recorded"
    /\ s.fn \in {"vkFreeCommandBuffers", "vkDestroyCommandPool"}
          => commandBuffer.state # "Submitted"
    /\ s.fn = "vkMapMemory" => s.uses \cap mapped = {}
    /\ s.fn = "vkUnmapMemory" \/ s.op \in {"hostwrite", "hostread"}
          => s.uses \cap MemoryBlocks(prog) \subseteq mapped

\* The handles statement s passes to the driver are all valid: created and
\* not yet destroyed (a destroy function also accepts VK_NULL_HANDLE).
ValidHandles(s) ==
    /\ \A h \in s.uses :
          IF h = "physicalDevice" THEN physicalDevice # VK_NULL_HANDLE
          ELSE handle[h] = "live"
    /\ s.destroys # "" => handle[s.destroys] \in {"live", "null"}

Valid(s) == ValidHandles(s) /\ ValidUsage(s)

\* What a driver call may do: return VK_SUCCESS or one of its error codes;
\* with an invalid handle its behaviour is undefined and it may also crash.
Outcomes(s) ==
    {[crash |-> FALSE, result |-> r] : r \in {VK_SUCCESS} \cup s.errs}
        \cup (IF Valid(s) THEN {}
              ELSE {[crash |-> TRUE, result |-> VK_SUCCESS]})

\* The part every statement has in common: the handle it fills or
\* destroys, the result code, and the early return of a checked call.
Finish(s, o) ==
    /\ pc' = pc + 1
    /\ IF o.crash
       THEN /\ exit' = "crashed"
            /\ UNCHANGED <<exitCode, errors, handle>>
       ELSE /\ errors' = IF o.result # VK_SUCCESS
                         THEN errors \cup {o.result} ELSE errors
            /\ IF s.checked /\ o.result # VK_SUCCESS
               THEN exit' = "returned" /\ exitCode' = o.result
               ELSE UNCHANGED <<exit, exitCode>>
            /\ handle' = IF o.result = VK_SUCCESS
                         THEN [h \in DOMAIN handle |->
                                 IF h = s.creates THEN "live"
                                 ELSE IF h = s.destroys THEN "destroyed"
                                 ELSE handle[h]]
                         ELSE handle

Succeeded(o) == ~o.crash /\ o.result = VK_SUCCESS

driverVars == <<queueFamilies, requirements, memoryTypes>>
selectVars == <<deviceIt, queueFamilyProperties, physicalDevice,
                queueFamilyIndex>>
memoryVars == <<memReq, requiredMemorySize, memoryProperties, memoryTypeIndex,
                memoryOffset, block, bound, call>>
workVars == <<commandBuffer, descriptors, mapped, contents, mismatch, target,
              plan>>

\* glfwInit, glfwVulkanSupported, glfwCreateWindow: on failure main
\* returns the statement's code.
GlfwCall ==
    /\ Running /\ Cur.op = "glfw"
    /\ \E ok \in BOOLEAN :
          IF ok THEN UNCHANGED <<exit, exitCode>>
          ELSE /\ exit' = "returned"
               /\ exitCode' = CHOOSE c \in Cur.errs : TRUE
    /\ pc' = pc + 1
    /\ UNCHANGED <<prog, errors, handle, driverVars, selectVars, memoryVars,
                   workVars>>

\* Any other call of the driver.  The work of a submitted command buffer
\* is done when vkQueueWaitIdle returns VK_SUCCESS.
DriverCall ==
    /\ Running /\ Cur.op = "call"
    /\ \E o \in Outcomes(Cur) :
          /\ Finish(Cur, o)
          /\ commandBuffer' =
                IF o.crash THEN commandBuffer
                ELSE CommandBufferAfter(Cur, o.result, commandBuffer,
                                        descriptors)
          /\ descriptors' = IF Succeeded(o)
                            THEN DescriptorsAfter(Cur, descriptors)
                            ELSE descriptors
          /\ mapped' = IF Succeeded(o) THEN MappedAfter(prog, Cur, mapped)
                       ELSE mapped
          /\ target' = IF Succeeded(o) THEN TargetAfter(Cur, target)
                       ELSE target
          /\ contents' =
                IF /\ Succeeded(o)
                   /\ Cur.fn = "vkQueueWaitIdle"
                   /\ commandBuffer.state = "Submitted"
                THEN [m \in DOMAIN contents |-> Dispatched(contents[m])]
                ELSE contents
    /\ UNCHANGED <<prog, driverVars, selectVars, memoryVars, mismatch, plan>>

\* The loop that writes the inputs through the mapped pointer.
HostWrite_ ==
    /\ Running /\ Cur.op = "hostwrite"
    /\ \E o \in Outcomes(Cur) :
          /\ Finish(Cur, o)
          /\ contents' =
                IF Succeeded(o) /\ Valid(Cur)
                THEN [contents EXCEPT ![Cur.arg.memory] =
                        HostWritten(@, Cur.arg.aData, Cur.arg.bData,
                                    Cur.arg.resultData)]
                ELSE contents
    /\ UNCHANGED <<prog, driverVars, selectVars, memoryVars, commandBuffer,
                   descriptors, mapped, mismatch, target, plan>>

\* The loop that reads the result back and prints every mismatch.  Words
\* read while the device may still write them, or through a pointer that
\* vkMapMemory did not set, are indeterminate.
HostRead_ ==
    /\ Running /\ Cur.op = "hostread"
    /\ \E o \in Outcomes(Cur), indeterminate \in BOOLEAN :
          /\ Finish(Cur, o)
          /\ mismatch' =
                IF o.crash THEN mismatch
                ELSE IF /\ Valid(Cur)
                        /\ commandBuffer.state # "Submitted"
                        /\ Determinate(contents[Cur.arg.memory],
                                       Cur.arg.aData, Cur.arg.bData,
                                       Cur.arg.resultData)
                THEN HostMismatch(contents[Cur.arg.memory], Cur.arg.aData,
                                  Cur.arg.bData, Cur.arg.resultData)
                ELSE indeterminate
    /\ UNCHANGED <<prog, driverVars, selectVars, memoryVars, commandBuffer,
                   descriptors, mapped, contents, target, plan>>

\* One iteration of  for (auto device : physicalDevices): the inner loop
\* over the device's queue families, which assigns physicalDevice and
\* queueFamilyIndex at the first family with the wanted bit.
ScanDevice ==
    /\ Running /\ Cur.op = "select"
    /\ physicalDevice = VK_NULL_HANDLE
    /\ deviceIt < Len(queueFamilies)
    /\ LET families == queueFamilies[deviceIt + 1]
           index == ScanQueueFamilies(0, families, WantedQueueBit(prog))
       IN /\ queueFamilyProperties' = families
          /\ deviceIt' = deviceIt + 1
          /\ IF index >= 0
             THEN /\ physicalDevice' = deviceIt + 1
                  /\ queueFamilyIndex' = index
             ELSE UNCHANGED <<physicalDevice, queueFamilyIndex>>
    /\ UNCHANGED <<prog, pc, exit, exitCode, errors, handle, driverVars,
                   memoryVars, workVars>>

\* if (physicalDevice) break;  or the end of the device list.  Nothing
\* tests physicalDevice after the loop.
EndSelect ==
    /\ Running /\ Cur.op = "select"
    /\ physicalDevice # VK_NULL_HANDLE \/ deviceIt = Len(queueFamilies)
    /\ pc' = pc + 1
    /\ queueFamilyProperties' = <<>>
    /\ UNCHANGED <<prog, exit, exitCode, errors, handle, driverVars, deviceIt,
                   physicalDevice, queueFamilyIndex, memoryVars, workVars>>

\* vkGetBufferMemoryRequirements(device, resource, &into);
\* requiredMemorySize += into.size;
GetReq ==
    /\ Running /\ Cur.op = "getreq"
    /\ \E o \in Outcomes(Cur) :
          /\ Finish(Cur, o)
          /\ IF Succeeded(o)
             THEN /\ memReq' = [memReq EXCEPT ![Cur.arg.into] =
                                   requirements[Cur.arg.resource]]
                  /\ requiredMemorySize' =
                        IF Cur.arg.accumulate
                        THEN requiredMemorySize +
                             requirements[Cur.arg.resource].size
                        ELSE requiredMemorySize
             ELSE UNCHANGED <<memReq, requiredMemorySize>>
    /\ UNCHANGED <<prog, driverVars, selectVars, memoryProperties,
                   memoryTypeIndex, memoryOffset, block, bound, call, workVars>>

\* vkGetPhysicalDeviceMemoryProperties(physicalDevice, &memoryProperties);
\* memoryTypeIndex = findMemoryTypeFromProperties(from.memoryTypeBits,
\*                       memoryProperties, required);
\* if (0 > memoryTypeIndex) return ~42;         (vector_add.cpp)
\* ASSERT(0 <= memoryTypeIndex, ...);           (triangle.cpp)
Find ==
    /\ Running /\ Cur.op = "find"
    /\ LET bits == memReq[Cur.arg.from].memoryTypeBits
           index == findMemoryTypeFromProperties(bits, memoryTypes,
                                                 Cur.arg.required)
       IN /\ memoryProperties' = memoryTypes
          /\ memoryTypeIndex' = index
          /\ call' = [memoryTypeBits |-> bits, properties |-> memoryTypes,
                      requiredProperties |-> Cur.arg.required, done |-> TRUE,
                      result |-> index]
          /\ IF 0 > index
             THEN IF Cur.arg.onfail = "return"
                  THEN exit' = "returned" /\ exitCode' = NotFortyTwo
                  ELSE exit' = "aborted" /\ UNCHANGED exitCode
             ELSE UNCHANGED <<exit, exitCode>>
    /\ pc' = pc + 1
    /\ UNCHANGED <<prog, errors, handle, driverVars, selectVars, memReq,
                   requiredMemorySize, memoryOffset, block, bound, workVars>>

\* allocateInfo.allocationSize = ...; allocateInfo.memoryTypeIndex =
\* memoryTypeIndex; vkAllocateMemory(device, &allocateInfo, 0, &memory);
Allocate_ ==
    /\ Running /\ Cur.op = "allocate"
    /\ \E o \in Outcomes(Cur) :
          /\ Finish(Cur, o)
          /\ block' = IF Succeeded(o)
                      THEN [block EXCEPT ![Cur.creates] =
                              [allocationSize |->
                                  IF Cur.arg.var = "" THEN requiredMemorySize
                                  ELSE memReq[Cur.arg.var].size * Cur.arg.times,
                               memoryTypeIndex |-> memoryTypeIndex]]
                      ELSE block
          /\ contents' =
                IF Succeeded(o) /\ Cur.creates \in DOMAIN contents
                THEN [contents EXCEPT ![Cur.creates] =
                        FreshWords(IF Cur.arg.var = "" THEN requiredMemorySize
                                   ELSE memReq[Cur.arg.var].size * Cur.arg.times)]
                ELSE contents
    /\ UNCHANGED <<prog, driverVars, selectVars, memReq, requiredMemorySize,
                   memoryProperties, memoryTypeIndex, memoryOffset, bound, call,
                   commandBuffer, descriptors, mapped, mismatch, target, plan>>

\* VkDeviceSize memoryOffset = 0;  or  memoryOffset += var.size;
SetOffset_ ==
    /\ Running /\ Cur.op = "setoffset"
    /\ memoryOffset' = IF Cur.arg.var = "" THEN 0
                       ELSE memoryOffset + memReq[Cur.arg.var].size
    /\ pc' = pc + 1
    /\ UNCHANGED <<prog, exit, exitCode, errors, handle, driverVars, selectVars,
                   memReq, requiredMemorySize, memoryProperties,
                   memoryTypeIndex, block, bound, call, workVars>>

\* vkBindBufferMemory(device, resource, memory, offset)
Bind_ ==
    /\ Running /\ Cur.op = "bind"
    /\ \E o \in Outcomes(Cur) :
          /\ Finish(Cur, o)
          /\ bound' = IF Succeeded(o)
                      THEN bound \cup
                           {[resource |-> Cur.arg.resource,
                             memory |-> Cur.arg.memory,
                             offset |-> IF Cur.arg.useVar THEN memoryOffset
                                        ELSE Cur.arg.literal]}
                      ELSE bound
    /\ UNCHANGED <<prog, driverVars, selectVars, memReq, requiredMemorySize,
                   memoryProperties, memoryTypeIndex, memoryOffset, block, call,
                   workVars>>

\* return 0;
ReturnZero ==
    /\ Running /\ Cur.op = "return"
    /\ exit' = "returned"
    /\ exitCode' = 0
    /\ pc' = pc + 1
    /\ UNCHANGED <<prog, errors, handle, driverVars, selectVars, memoryVars,
                   workVars>>

\* One invocation of the memory type search on the arguments in call.
SearchMemoryType ==
    /\ ~call.done
    /\ call' = [call EXCEPT
                  !.done = TRUE,
                  !.result = findMemoryTypeFromProperties(
                                 call.memoryTypeBits, call.properties,
                                 call.requiredProperties)]
    /\ UNCHANGED <<prog, pc, exit, exitCode, errors, handle, driverVars,
                   selectVars, memReq, requiredMemorySize, memoryProperties,
                   memoryTypeIndex, memoryOffset, block, bound, workVars>>

Next ==
    \/ GlfwCall
    \/ DriverCall
    \/ ScanDevice
    \/ EndSelect
    \/ GetReq
    \/ Find
    \/ Allocate_
    \/ SetOffset_
    \/ Bind_
    \/ HostWrite_
    \/ HostRead_
    \/ ReturnZero

Spec == Init /\ [][Next]_vars

NextSelect == ScanDevice \/ EndSelect

SpecSelect == InitSelect /\ [][NextSelect]_vars

NextFind == SearchMemoryType

SpecFind == InitFind /\ [][NextFind]_vars

InPlanning == pc <= LastBindAt(prog)

NextAlloc ==
    \/ InPlanning /\ DriverCall
    \/ InPlanning /\ GetReq
    \/ InPlanning /\ Find
    \/ InPlanning /\ Allocate_
    \/ InPlanning /\ SetOffset_
    \/ InPlanning /\ Bind_

SpecAlloc == InitAlloc /\ [][NextAlloc]_vars

\* The memory type index, the allocation sizes and the bind offsets of
\* the run.
Plan ==
    [memoryTypeIndex |-> memoryTypeIndex,
     allocationSize |-> [m \in DOMAIN block |-> block[m].allocationSize],
     offsets |-> bound]

Planned == exit = "running" /\ pc = LastBindAt(prog) + 1

\* the value requiredMemorySize has when a run does not start it afresh
requiredMemorySizeKept == requiredMemorySize

\* VkDeviceSize requiredMemorySize = 0;
requiredMemorySizeInit == 0

\* A run has planned its memory, and main is run again on the same machine
\* with the same driver: every variable of main starts afresh and the
\* plan of the first run is kept for comparison.
Rerun ==
    /\ Planned
    /\ plan = <<>>
    /\ plan' = <<Plan>>
    /\ pc' = FirstBufferAt(prog)
    /\ handle' = HandlesBefore(prog, FirstBufferAt(prog))
    /\ memReq' = [v \in RequirementVars(prog) |-> NoRequirements]
    /\ requiredMemorySize' = requiredMemorySizeInit
    /\ memoryProperties' = <<>>
    /\ memoryTypeIndex' = 0
    /\ memoryOffset' = 0
    /\ block' = [m \in MemoryBlocks(prog) |-> NoBlock]
    /\ bound' = {}
    /\ call' = NoCall
    /\ contents' = [m \in HostBlocks(prog) |-> <<>>]
    /\ UNCHANGED <<prog, exit, exitCode, errors, driverVars, selectVars,
                   commandBuffer, descriptors, mapped, mismatch, target>>

\* The memory planning run twice on the same machine.
NextReplan ==
    \/ InPlanning /\ DriverCall
    \/ InPlanning /\ GetReq
    \/ InPlanning /\ Find
    \/ InPlanning /\ Allocate_
    \/ InPlanning /\ SetOffset_
    \/ InPlanning /\ Bind_
    \/ Rerun

SpecReplan == InitAlloc /\ [][NextReplan]_vars

---------------------------------------------------------------------------
\* Properties of the memory plan.

\* bit index of a mask is set
BitSet(mask, index) == (mask \div (2 ^ index)) % 2 = 1

\* The region a bind gives its resource: from the bind offset, for the
\* size the driver requires for that resource.
RegionStart(b) == b.offset
RegionEnd(b) == b.offset + requirements[b.resource].size

RoundUp(size, alignment) ==
    ((size + alignment - 1) \div alignment) * alignment

\* The binds made so far, in program order.
BindsAt ==
    {k \in 1..(pc - 1) : Program(prog)[k].op = "bind"}

BoundOf(r) == CHOOSE b \in bound : b.resource = r

AllBound ==
    \A r \in Buffers(prog) : \E b \in bound : b.resource = r

\* C1: the regions at which distinct buffers are bound into one memory
\* block are pairwise disjoint, whatever size and alignment the driver
\* reports.
C1_RegionsDisjoint ==
    \A a, b \in bound :
        a.resource # b.resource /\ a.memory = b.memory =>
            RegionEnd(a) <= RegionStart(b) \/ RegionEnd(b) <= RegionStart(a)

\* C2: the offset at which a buffer is bound is a multiple of the alignment
\* the driver requires for that buffer.
C2_OffsetsAligned ==
    \A b \in bound : b.offset % requirements[b.resource].alignment = 0

\* C3: the size of the memory block equals the end of the last bound
\* region, and every bound region lies inside [0, allocationSize).
C3_AllocationSizeIsFinalOffset ==
    /\ \A b \in bound :
          0 <= RegionStart(b) /\ RegionEnd(b) <= block[b.memory].allocationSize
    /\ AllBound =>
          \A m \in {b.memory : b \in bound} :
             \E last \in bound :
                /\ last.memory = m
                /\ \A b \in bound : b.memory = m => RegionEnd(b) <= RegionEnd(last)
                /\ block[m].allocationSize = RegionEnd(last)

\* C4: the first resource is bound at offset 0 and each next resource at
\* the previous offset plus the previous resource's own required size
\* rounded up to its own required alignment.
C4_SequentialLayout ==
    \A k \in BindsAt :
        LET r == Program(prog)[k].arg.resource
            earlier == {j \in BindsAt : j < k}
        IN (\E b \in bound : b.resource = r) =>
              IF earlier = {}
              THEN BoundOf(r).offset = 0
              ELSE LET j == CHOOSE i \in earlier : \A h \in earlier : h <= i
                       prev == Program(prog)[j].arg.resource
                   IN BoundOf(r).offset =
                         BoundOf(prev).offset +
                         RoundUp(requirements[prev].size,
                                 requirements[prev].alignment)

C1_TriangleOverlap ==
    /\ prog = "triangle"
    /\ AllBound
    /\ requirements["vertexColors"].size = 64

\* a triangle.cpp run has bound vertexColors, which requires an alignment
\* of 256
C2_TriangleMisaligned ==
    /\ prog = "triangle"
    /\ \E b \in bound : b.resource = "vertexColors"
    /\ requirements["vertexColors"].alignment = 256

\* a triangle.cpp run has bound both buffers, each requiring 256 bytes, into
\* a block of 512 bytes
C3_TriangleBlockTooLarge ==
    /\ prog = "triangle"
    /\ AllBound
    /\ requirements["vertexColors"].size = 256
    /\ block["bufferMemory"].allocationSize = 512

\* a vector_add.cpp run has bound bufferB behind a bufferA that requires
\* 4112 bytes at an alignment of 256
C4_VectorAddNotRounded ==
    /\ prog = "vector_add"
    /\ \E b \in bound : b.resource = "bufferB" /\ b.offset = 4112
    /\ requirements["bufferA"].alignment = 256

---------------------------------------------------------------------------
\* Properties of the memory type search.

MatchingTypes ==
    {i \in 0..(Len(call.properties) - 1) :
        /\ BitSet(call.memoryTypeBits, i)
        /\ call.properties[i + 1] = call.requiredProperties}

\* C6: the memory type search returns the lowest index below
\* memoryTypeCount whose bit is set in the mask and whose propertyFlags
\* equal the requested flags, returns -1 exactly when there is none, and
\* never returns a type whose flags are a strict superset of those
\* requested.
C6_FindMemoryTypeExact ==
    call.done =>
        /\ MatchingTypes = {} <=> call.result = -1
        /\ MatchingTypes # {} =>
              /\ call.result \in MatchingTypes
              /\ \A i \in MatchingTypes : call.result <= i
        /\ call.result # -1 =>
              call.properties[call.result + 1] = call.requiredProperties

\* the search has passed over type 0, allowed by the mask and with a
\* strict superset of the requested flags, and returned type 1
C6_Witness ==
    /\ call.done
    /\ call.memoryTypeBits = 3
    /\ call.properties = <<DeviceLocalHostVisibleCoherent, HostVisibleCoherent>>
    /\ call.requiredProperties = HostVisibleCoherent
    /\ call.result = 1

---------------------------------------------------------------------------
\* Properties of the device selection.

RequiredCapability ==
    IF prog = "triangle" THEN VK_QUEUE_GRAPHICS_BIT ELSE VK_QUEUE_COMPUTE_BIT

HasFlag(flags, bit) == (flags \div bit) % 2 = 1

CapableFamilies(d) ==
    {i \in 0..(Len(queueFamilies[d]) - 1) :
        HasFlag(queueFamilies[d][i + 1], RequiredCapability)}

CapableDevices ==
    {d \in 1..Len(queueFamilies) : CapableFamilies(d) # {}}

SelectionDone == pc > SelectAt(prog)

Attempted(fn) ==
    \E k \in 1..(pc - 1) : Program(prog)[k].fn = fn

\* C8: when no enumerated device has a queue family with the required
\* capability, the run stops with an error once the selection is over and
\* never calls vkCreateDevice.
C8_NoCapableDeviceStops ==
    CapableDevices = {} =>
        /\ ~Attempted("vkCreateDevice")
        /\ SelectionDone => exit = "returned" /\ exitCode # 0

\* a run on a machine without a capable device has called vkCreateDevice
\* with physicalDevice still VK_NULL_HANDLE
C8_CreateDeviceOnNull ==
    /\ CapableDevices = {}
    /\ physicalDevice = VK_NULL_HANDLE
    /\ Attempted("vkCreateDevice")

---------------------------------------------------------------------------
\* Properties of the exit value.

\* C9: when a driver call of the run has returned a nonzero result code,
\* main returns that code and does not return 0.
C9_ReturnsDriverError ==
    exit = "returned" /\ errors # {} =>
        exitCode # 0 /\ exitCode \in errors

\* vector_add.cpp has returned 0 from a run in which the only nonzero
\* result code was VK_ERROR_DEVICE_LOST, on a machine with a capable device
C9_DeviceLostReturnsZero ==
    /\ prog = "vector_add"
    /\ CapableDevices # {}
    /\ exit = "returned"
    /\ exitCode = 0
    /\ errors = {VK_ERROR_DEVICE_LOST}

\* C10: when the memory type search finds no matching type, main returns a
\* negative sentinel value: it neither aborts nor goes on to allocate.
C10_NoMemoryTypeReturnsSentinel ==
    call.done /\ call.result = -1 =>
        exit = "returned" /\ exitCode < 0

\* triangle.cpp has aborted after a search that found no memory type
C10_TriangleAborts ==
    /\ prog = "triangle"
    /\ call.done
    /\ call.result = -1
    /\ exit = "aborted"


---------------------------------------------------------------------------
\* The vector addition.

Completed == commandBuffer.state = "Completed"

\* Element i of the buffer written to a binding of the descriptor set.
Element(binding, i) == contents["memory"][WordOffset(binding) + i]

\* C11: in the compute example, once the submitted work has completed,
\* for every i in [0, 1024) A[i] is i, B[i] is -i and R[i] is A[i] + B[i],
\* which is 0.
C11_ResultIsZero ==
    prog = "vector_add" /\ Completed =>
        \A i \in 0..(elements - 1) :
            /\ Element(0, i) = Word(i)
            /\ Element(1, i) = Word(-i)
            /\ Element(2, i) = Word(Element(0, i)[1] + Element(1, i)[1])
            /\ Element(2, i) = Word(0)

\* The work has completed on B[i] = 42 and R[i] = i + 42, and the read-back
\* loop has found R[i] = A[i] + B[i] everywhere.
C11_ResultIsInputPlusFortyTwo ==
    /\ prog = "vector_add" /\ Completed
    /\ exit = "returned" /\ exitCode = 0 /\ ~mismatch
    /\ \A i \in 0..(elements - 1) :
          /\ Element(0, i) = Word(i)
          /\ Element(1, i) = Word(FortyTwo)
          /\ Element(2, i) = Word(i + FortyTwo)

---------------------------------------------------------------------------
\* Mapping and the lifecycle of the command buffer.

InFlight == commandBuffer.state = "Submitted"

\* C12: no memory block is host-mapped while the submitted work that
\* refers to it is in flight: it is unmapped before the submission and
\* mapped again only after the device has signalled completion.
C12_NotMappedInFlight == InFlight => mapped = {}

\* vkQueueWaitIdle has returned an error, the work is still in flight, and
\* the block is mapped again.
C12_MappedInFlight ==
    /\ prog = "vector_add"
    /\ InFlight
    /\ "memory" \in mapped
    /\ VK_ERROR_OUT_OF_HOST_MEMORY \in errors

Rank(state) ==
    CASE state = "Initial" -> 0
      [] state = "Recording" -> 1
      [] state = "Recorded" -> 2
      [] state = "Submitted" -> 3
      [] state = "Completed" -> 4

Log == commandBuffer.log

\* The state in which the lifecycle allows fn to be called.
StateFor(fn) ==
    IF fn = "vkBeginCommandBuffer" THEN "Initial"
    ELSE IF fn = "vkQueueSubmit" THEN "Recorded"
    ELSE IF fn = "vkQueueWaitIdle" THEN "Submitted"
    ELSE "Recording"

Lifecycle ==
    RecordingCommands \cup
    {"vkBeginCommandBuffer", "vkEndCommandBuffer", "vkQueueSubmit",
     "vkQueueWaitIdle"}

\* C13: in every run the command buffer only moves forward through
\* Initial, Recording, Recorded, Submitted, Completed: recording begins in
\* Initial, commands are recorded and recording is ended only in Recording,
\* the submission is made only from Recorded, the queue wait only from
\* Submitted, and no state is revisited.
C13_LifecycleForward ==
    /\ \A k \in DOMAIN Log :
          Log[k].fn \in Lifecycle => Log[k].state = StateFor(Log[k].fn)
    /\ \A j, k \in DOMAIN Log :
          j < k => Rank(Log[j].state) <= Rank(Log[k].state)
    /\ \A k \in DOMAIN Log : Rank(Log[k].state) <= Rank(commandBuffer.state)

\* vkBeginCommandBuffer has failed and a command is recorded in Initial.
C13_RecordedWhileInitial ==
    /\ prog = "vector_add"
    /\ \E k \in DOMAIN Log :
          Log[k].fn \in RecordingCommands /\ Log[k].state = "Initial"

\* The recording of the batch has been ended.
Ended ==
    \E k \in DOMAIN Log :
        Log[k].fn = "vkEndCommandBuffer" /\ Log[k].state = "Recording"

\* C14: in every run in which all driver calls succeed, the recorded batch
\* has been submitted and awaited when its command buffer or its pool is
\* torn down and when main returns 0.
C14_CompletedBeforeTeardown ==
    errors = {} /\ Ended =>
        /\ \A k \in DOMAIN Log :
              Log[k].fn \in {"vkFreeCommandBuffers", "vkDestroyCommandPool"}
                  => Log[k].state = "Completed"
        /\ exit = "returned" /\ exitCode = 0 => Completed

\* triangle.cpp has returned 0 with its recorded batch never submitted.
C14_TriangleNeverSubmits ==
    /\ prog = "triangle"
    /\ exit = "returned" /\ exitCode = 0 /\ errors = {}
    /\ commandBuffer.state = "Recorded"
    /\ handle["commandBuffer"] = "destroyed"

\* C15: no command that binds a descriptor set is recorded unless every
\* binding declared in the layout of the set has been written.
C15_BoundSetIsWritten ==
    \A k \in DOMAIN Log :
        Log[k].fn = "vkCmdBindDescriptorSets" =>
            descriptors.declared \subseteq Log[k].written

\* triangle.cpp records the bind of a set none of whose bindings is written.
C15_TriangleBindsUnwritten ==
    /\ prog = "triangle"
    /\ descriptors.declared = {0, 1}
    /\ \E k \in DOMAIN Log :
          /\ Log[k].fn = "vkCmdBindDescriptorSets"
          /\ Log[k].state = "Recording"
          /\ Log[k].written = {}

---------------------------------------------------------------------------
\* Descriptor counts.

PoolCreated == descriptors.maxSets > 0

LayoutCreated == descriptors.declared # {}

\* C16: in every example that creates a descriptor pool, the
\* descriptorCount of the pool equals the number of bindings the layout
\* declares.
C16_PoolCapacityIsSlotCount ==
    PoolCreated =>
        descriptors.descriptorCount = Cardinality(descriptors.declared)

\* C16, with the origin of the number: the descriptorCount of the pool equals the number of
\* bindings the layout declares and is computed from the declaration of
\* the bindings, not written as a second literal.
C16_PoolCapacityFromDeclaration ==
    PoolCreated =>
        /\ descriptors.descriptorCount = Cardinality(descriptors.declared)
        /\ descriptors.poolSized

\* Both pools exist: the one of vector_add.cpp sized by the declaration,
\* the one of triangle.cpp by a literal.
C16_Witness ==
    /\ PoolCreated
    /\ descriptors.descriptorCount = Cardinality(descriptors.declared)
    /\ descriptors.poolSized <=> prog = "vector_add"

\* C17: the bindingCount passed to vkCreateDescriptorSetLayout equals the
\* number of bindings declared.
C17_BindingCountIsSlotCount ==
    LayoutCreated =>
        descriptors.bindingCount = Cardinality(descriptors.declared)

\* example.cpp declares three bindings and passes bindingCount = 2.
C17_ExamplePassesTwo ==
    /\ prog = "example"
    /\ LayoutCreated
    /\ descriptors.declared = {0, 1, 2}
    /\ descriptors.bindingCount = 2

---------------------------------------------------------------------------
\* Teardown.

\* The line at which the teardown at the end of main(p) begins.
TeardownLine(p) ==
    IF p = "vector_add" THEN 526 ELSE IF p = "triangle" THEN 732 ELSE 245

\* The handles that the statements of P create in this order: x, then y.
CreatedInOrder(P) ==
    {<<P[q[1]].creates, P[q[2]].creates>> :
        q \in {jk \in (DOMAIN P) \X (DOMAIN P) :
                  /\ jk[1] < jk[2]
                  /\ P[jk[1]].creates # ""
                  /\ P[jk[2]].creates # ""}}

\* The handles that the teardown of P destroys.
TornDown(P, from) ==
    {P[k].destroys : k \in {i \in DOMAIN P : P[i].destroys # ""
                                                /\ P[i].line >= from}}

\* x was created before y.
CreatedBefore(x, y) == <<x, y>> \in CreatedInOrder(Program(prog))

InTeardown(h) == h \in TornDown(Program(prog), TeardownLine(prog))

\* C18: on the path on which every call succeeds, the teardown destroys
\* the objects in strict reverse order of creation: when it has destroyed
\* an object, it has already destroyed every object created after that one.
C18_ReverseOrderOfCreation ==
    errors = {} =>
        LET torn == TornDown(Program(prog), TeardownLine(prog))
            order == CreatedInOrder(Program(prog))
        IN \A x, y \in torn :
              handle[x] = "destroyed" /\ <<x, y>> \in order
                  => handle[y] = "destroyed"

\* vector_add.cpp has freed the memory block while the descriptor pool,
\* created after the block, is still live.
C18_MemoryBeforeDescriptorPool ==
    /\ prog = "vector_add"
    /\ errors = {}
    /\ handle["memory"] = "destroyed"
    /\ handle["descriptorPool"] = "live"
    /\ CreatedBefore("memory", "descriptorPool")
    /\ InTeardown("memory") /\ InTeardown("descriptorPool")

\* The object whose destruction releases h, for the objects that are not
\* destroyed on their own.
Owner(h) ==
    CASE h = "queue" -> "device"
      [] h = "descriptorSet" -> "descriptorPool"
      [] h = "commandBuffer" -> "commandPool"
      [] OTHER -> h

Released(h) == handle[h] # "live" \/ handle[Owner(h)] = "destroyed"

\* C19: on every exit path, the early returns included, every object
\* created so far has been released when main returns.
C19_NothingLeaked ==
    exit = "returned" => \A h \in DOMAIN handle : Released(h)

\* vkCreateDevice has failed and main has returned the error with the
\* instance still live.
C19_InstanceLeaked ==
    /\ exit = "returned"
    /\ exitCode = VK_ERROR_OUT_OF_HOST_MEMORY
    /\ handle["instance"] = "live"
    /\ handle["device"] # "live"

\* C20: a memory block is freed only after every buffer or image bound to
\* it has been destroyed.
C20_MemoryFreedAfterResources ==
    \A b \in bound :
        handle[b.memory] = "destroyed" => handle[b.resource] = "destroyed"

\* vector_add.cpp has freed the block with the three buffers bound to it
\* still live.
C20_FreedUnderLiveBuffers ==
    /\ prog = "vector_add"
    /\ handle["memory"] = "destroyed"
    /\ \A r \in {"bufferA", "bufferB", "bufferResult"} :
          /\ handle[r] = "live"
          /\ \E b \in bound : b.resource = r /\ b.memory = "memory"

---------------------------------------------------------------------------
\* Resources and the memory behind them.

\* The statement main(prog) has just run.
Last == Program(prog)[pc - 1]

IsBound(r) == \E b \in bound : b.resource = r

\* The buffers and images a statement refers to when it is a descriptor
\* write, the creation of a view or the recording of a command.
Referenced(s) ==
    IF s.op = "call" /\ s.destroys = "" THEN s.uses \cap Resources(prog)
    ELSE {}

\* C21: every buffer or image is bound to device memory before a
\* descriptor write, an image view, a framebuffer or a recorded command
\* refers to it.
C21_BoundBeforeReferenced ==
    pc > 1 => \A r \in Referenced(Last) : IsBound(r)

\* triangle.cpp has created the view of the depth image, which is bound to
\* no memory.
C21_ViewOfUnboundImage ==
    /\ prog = "triangle"
    /\ pc > 1
    /\ Last.fn = "vkCreateImageView"
    /\ handle["depthStencilView"] = "live"
    /\ "depthStencil" \in Referenced(Last)
    /\ ~IsBound("depthStencil")

---------------------------------------------------------------------------
\* Errors while the batch is recorded and submitted.

BatchCalls == {"vkBeginCommandBuffer", "vkEndCommandBuffer", "vkQueueSubmit"}

\* A call that begins or ends the recording or submits the batch has
\* returned an error before the statement main(prog) has just run.
BatchFailedBefore ==
    \E j \in DOMAIN Log :
        /\ Log[j].fn \in BatchCalls
        /\ Log[j].result # VK_SUCCESS
        /\ j < Len(Log) \/ Last.fn \notin CommandBufferCalls

\* Statement s submits the batch, waits for the queue, or maps the block
\* after the submission to read the results.
GoesOn(s) ==
    \/ s.fn \in {"vkQueueSubmit", "vkQueueWaitIdle"}
    \/ s.fn = "vkMapMemory" /\ Attempted("vkQueueSubmit")

\* C22: when beginning the recording, ending it or submitting the batch
\* has returned an error, the run does not go on to submit, to wait for the
\* queue or to map the block to read results.
C22_ErrorAbortsBatch ==
    pc > 1 /\ BatchFailedBefore => ~GoesOn(Last)

\* vkQueueSubmit has returned VK_ERROR_DEVICE_LOST and main has gone on to
\* vkQueueWaitIdle and to the second vkMapMemory.
C22_MapsAfterFailedSubmit ==
    /\ prog = "vector_add"
    /\ pc > 1
    /\ Last.fn = "vkMapMemory" /\ Attempted("vkQueueSubmit")
    /\ \E j, k \in DOMAIN Log :
          /\ j < k
          /\ Log[j].fn = "vkQueueSubmit"
          /\ Log[j].result = VK_ERROR_DEVICE_LOST
          /\ Log[k].fn = "vkQueueWaitIdle"

---------------------------------------------------------------------------
\* The formats of the render pass and of its target.

\* The formats of the image views created under the name v.
ViewFormats(v) == {r.format : r \in {x \in target.views : x.view = v}}

\* C23: in every run that reaches the draw, the format of each attachment
\* of the render pass the pipeline was built with equals the format of
\* the image view attached to the framebuffer in its place (a pipeline
\* built with other formats would have failed to build).
C23_FormatsMatchAtDraw ==
    Attempted("vkCmdDraw") =>
        /\ Len(target.framebuffer) = Len(target.renderPass)
        /\ \A i \in DOMAIN target.renderPass :
              ViewFormats(target.framebuffer[i]) = {target.renderPass[i]}

\* triangle.cpp has recorded the draw with a pipeline and render pass whose
\* colour attachment is R32G32B32A32_SFLOAT, on a framebuffer whose first
\* attachment is the view of a B8G8R8A8_UNORM swapchain, never created.
C23_DrawOnOtherFormat ==
    /\ prog = "triangle"
    /\ Attempted("vkCmdDraw")
    /\ handle["pipeline"] = "live"
    /\ target.renderPass[1] = VK_FORMAT_R32G32B32A32_SFLOAT
    /\ target.swapchain = {VK_FORMAT_B8G8R8A8_UNORM}
    /\ target.framebuffer[1] = "swapchainView"
    /\ ViewFormats("swapchainView") = {}
    /\ ViewFormats(target.framebuffer[2]) = {target.renderPass[2]}

---------------------------------------------------------------------------
\* Planning twice.

---------------------------------------------------------------------------
\* The descriptor writes.

Written(binding, buffer) ==
    [binding |-> binding, buffer |-> buffer, offset |-> 0,
     range |-> VK_WHOLE_SIZE]

\* C25: in vector_add, after the descriptor update and when the set is
\* bound, binding 0 refers to buffer A, binding 1 to buffer B and binding 2
\* to the result buffer, each at offset 0 and over the whole buffer, and
\* these are exactly the bindings declared in the layout.
C25_SlotsReferToBuffers ==
    /\ prog = "vector_add"
    /\ Attempted("vkUpdateDescriptorSets")
    /\ exit # "crashed"
    => /\ descriptors.written =
             {Written(0, "bufferA"), Written(1, "bufferB"),
              Written(2, "bufferResult")}
       /\ {w.binding : w \in descriptors.written} = descriptors.declared
       /\ \A k \in DOMAIN Log :
             Log[k].fn = "vkCmdBindDescriptorSets"
                 => Log[k].written = descriptors.declared

\* The update has just run and the three bindings are written; later the
\* set is bound.
C25_Witness ==
    /\ prog = "vector_add"
    /\ Attempted("vkCmdBindDescriptorSets")
    /\ exit = "running"
    /\ Cardinality(descriptors.written) = 3
    /\ \E k \in DOMAIN Log :
          Log[k].fn = "vkCmdBindDescriptorSets" /\ Log[k].written = {0, 1, 2}

---------------------------------------------------------------------------
\* Host addresses.

\* The byte offsets from the mapped pointer at which the loop of statement
\* s finds the data of each buffer: data is an int32_t pointer.
HostByteOffset(s) ==
    [bufferA |-> 4 * s.arg.aData, bufferB |-> 4 * s.arg.bData,
     bufferResult |-> 4 * s.arg.resultData]

BoundOffset(r) == (CHOOSE b \in bound : b.resource = r).offset

\* C26: in both mapping windows of vector_add the host address used for
\* the data of each buffer lies at the byte offset at which the buffer was
\* bound to the block.
C26_HostOffsetIsBindOffset ==
    pc > 1 /\ Last.op \in {"hostwrite", "hostread"} =>
        \A r \in DOMAIN HostByteOffset(Last) :
            HostByteOffset(Last)[r] = BoundOffset(r)

\* In the first window the result has been written at the offset at which
\* buffer B is bound, not the result buffer.
C26_ResultWrittenOverB ==
    /\ prog = "vector_add"
    /\ pc > 1 /\ Last.op = "hostwrite"
    /\ exit = "running"
    /\ HostByteOffset(Last)["bufferResult"] = BoundOffset("bufferB")
    /\ HostByteOffset(Last)["bufferResult"] # BoundOffset("bufferResult")

---------------------------------------------------------------------------
\* The first mapping window.

\* The first window has just been closed.
FirstWindowClosed ==
    /\ prog = "vector_add"
    /\ pc > 1
    /\ Last.fn = "vkUnmapMemory"
    /\ ~Attempted("vkQueueSubmit")
    /\ exit = "running"

\* C27: when the first mapping window of vector_add is closed, for every
\* i in [0, 1024) buffer A holds i, buffer B holds -i and the result buffer
\* holds 42.
C27_InputsWritten ==
    FirstWindowClosed =>
        \A i \in 0..(elements - 1) :
            /\ Element(0, i) = Word(i)
            /\ Element(1, i) = Word(-i)
            /\ Element(2, i) = Word(FortyTwo)

\* The window is closed with 42 in every element of buffer B and nothing
\* written to the result buffer.
C27_FortyTwoInB ==
    /\ FirstWindowClosed
    /\ \A i \in 0..(elements - 1) :
          /\ Element(0, i) = Word(i)
          /\ Element(1, i) = Word(FortyTwo)
          /\ Element(2, i) = Unwritten

---------------------------------------------------------------------------
\* The verdict of the run.

\* printf("success\n"); return 0;
ReportedSuccess == prog = "vector_add" /\ exit = "returned" /\ exitCode = 0

\* C28: vector_add prints "success" and returns 0 only if the read-back
\* loop found the result equal to A[i] + B[i] at every index: a run in
\* which the loop found a mismatch does not report success.
C28_SuccessOnlyIfResultRight ==
    ReportedSuccess => ~mismatch

\* The submission has failed, the read-back loop has printed a mismatch,
\* and main has printed "success" and returned 0.
C28_SuccessAfterMismatch ==
    /\ ReportedSuccess
    /\ mismatch
    /\ errors = {VK_ERROR_DEVICE_LOST}
    /\ commandBuffer.state = "Recorded"

---------------------------------------------------------------------------
\* The handles passed to the driver.

\* C29: in every run, the runs in which a creation fails included, the
\* call main is about to make is passed only handles that were created
\* and are not yet destroyed.
C29_OnlyLiveHandlesPassed ==
    Running /\ Cur.op # "return" => ValidHandles(Cur)

\* vkCreatePipelineLayout has failed, its result was dropped, and
\* vkCreateComputePipelines has been called with the VK_NULL_HANDLE layout.
C29_PipelineOfNullLayout ==
    /\ prog = "vector_add"
    /\ pc > 1
    /\ Last.fn = "vkCreateComputePipelines"
    /\ "pipelineLayout" \in Last.uses
    /\ handle["pipelineLayout"] = "null"
    /\ errors = {VK_ERROR_OUT_OF_HOST_MEMORY}

---------------------------------------------------------------------------
\* Host access and the result of the map.

\* C30: the host reads or writes through the mapped pointer only when the
\* map before it succeeded, so that the block is mapped.
C30_HostAccessOnlyWhenMapped ==
    pc > 1 /\ Last.op \in {"hostwrite", "hostread"} =>
        Last.arg.memory \in mapped

\* The second vkMapMemory has failed and the read-back loop has run.
C30_ReadAfterFailedMap ==
    /\ prog = "vector_add"
    /\ pc > 1
    /\ Last.op = "hostread"
    /\ "memory" \notin mapped
    /\ errors = {VK_ERROR_MEMORY_MAP_FAILED}
    /\ Completed
====
